---- MODULE Spec2Model ----
(***************************************************************************)
(* Model of the Dashboard component (frontend/src/pages/Dashboard.jsx):    *)
(* the live-snapshot intake, the rolling history, the cumulative whisper   *)
(* counter and the alert toast queue with its setTimeout-driven lifecycle. *)
(*                                                                         *)
(* React state updates in the component are all functional updaters, and   *)
(* every handler runs to completion on the single JS thread, so a handler  *)
(* is one atomic action that applies its updaters in program order.        *)
(* setTimeout is modelled punctually: a timer's callback runs at its       *)
(* deadline, and time does not move past a pending deadline.               *)
(***************************************************************************)
EXTENDS Integers, Sequences, FiniteSets, TLC

\* ---------------------------------------------------------------- constants
MAX_VISIBLE_ALERTS == 5
ALERT_AUTO_DISMISS_MS == 5000
DISMISS_ANIMATION_MS == 400
HISTORY_CAPACITY == 30
NOTIFICATION_CLOSE_MS == 6000

\* ------------------------------------------------------------------- bounds
MaxSnapshots == 2
MaxDismissClicks == 1
MaxStream == 45
FreePrefix == 4
MaxBurstSnapshots == 11
MaxMounts == 2
MaxQuietSnapshots == 3

VARIABLES
    micData,        \* useState: the snapshot on display
    history,        \* useState: rolling chart buffer, oldest first
    whisperCount,   \* useState: cumulative counter
    alerts,         \* useState: alert toasts, newest first
    prevVoiceRef,   \* useRef: is_voice of the previous snapshot
    alertIdCounter, \* useRef: last alert id handed out
    timers,         \* pending setTimeout callbacks, in creation order
    subscribed,     \* the onValue listener is attached
    instance,       \* which mount of the component the state above belongs to
    idsEver,        \* observer: every alert id handed out since the page was loaded
    delivered,      \* observer: every valid snapshot delivered so far
    raised,         \* observer: one record per pushAlert call
    burst,          \* observer: raises since the last timer callback or dismiss
    clicks,         \* observer: number of dismiss-button clicks
    refAlerts,      \* observer: the alert list when repeated dismissAlert calls are dropped
    lastOp          \* observer: the handler that ran last and its side-effect outcomes

vars == <<micData, history, whisperCount, alerts, prevVoiceRef, alertIdCounter,
          timers, subscribed, instance, idsEver, delivered, raised, burst, clicks, refAlerts, lastOp>>

\* ------------------------------------------------------------------ helpers
Min(a, b) == IF a < b THEN a ELSE b

\* Array.prototype.slice(0, n)
SliceFirst(s, n) == IF Len(s) <= n THEN s ELSE SubSeq(s, 1, n)

\* variant: slice(0, n) instead of slice(-n)
SliceLastKeepsFront(s, n) == IF Len(s) <= n THEN s ELSE SubSeq(s, 1, n)

\* Array.prototype.slice(-n)
SliceLast(s, n) == IF Len(s) <= n THEN s ELSE SubSeq(s, Len(s) - n + 1, Len(s))

\* snapshot.val() of an absent node
NullData == [null |-> TRUE]

\* the n-th sample pushed by the sensor: doa sweeps, timestamp is one second per sample
Sample(n, voice) ==
    [doa |-> (n * 45) % 360, is_voice |-> voice, timestamp |-> n * 1000]

\* toLocaleTimeString([], {hour12: false, minute: '2-digit', second: '2-digit'}):
\* minute and second of the instant (zone offset of whole hours)
TimeLabel(timestamp) ==
    <<(timestamp \div 60000) % 60, (timestamp \div 1000) % 60>>

HistoryPoint(data) ==
    [doa |-> data.doa, is_voice |-> data.is_voice, timestamp |-> data.timestamp,
     voiceValue |-> IF data.is_voice THEN 1 ELSE 0,
     time |-> TimeLabel(data.timestamp)]

\* setHistory updater
AppendHistory(prev, data) ==
    LET newHistory == Append(prev, HistoryPoint(data))
    IN  SliceLast(newHistory, HISTORY_CAPACITY)

\* variant: the counter is bumped on every snapshot
BumpOnEverySnapshot(prev, data) == prev + 1

\* variant: only a true sample that follows a true sample is counted
BumpOnRepeatedVoice(prev, data) ==
    IF data.is_voice /\ micData.is_voice THEN prev + 1 ELSE prev

\* if (data.is_voice) setWhisperCount(prev => prev + 1)
BumpWhisperCount(prev, data) == IF data.is_voice THEN prev + 1 ELSE prev

\* the edge test of the onValue callback
IsRisingEdge(data, prevVoice) == data.is_voice /\ ~prevVoice

\* variant: the two arguments end up in each other's field
NewAlertSwapsFields(id, doa, timestamp) ==
    [id |-> id, doa |-> timestamp, timestamp |-> doa, dismissing |-> FALSE]

NewAlert(id, doa, timestamp) ==
    [id |-> id, doa |-> doa, timestamp |-> timestamp, dismissing |-> FALSE]

\* variant: the new alert is put at the tail before the cut
AppendAlert(prev, newAlert) ==
    LET updated == prev \o <<newAlert>>
    IN  SliceFirst(updated, MAX_VISIBLE_ALERTS)

\* variant: over the cap, a dismissing entry is dropped in preference to the tail
PrependEvictDismissing(prev, newAlert) ==
    LET updated == <<newAlert>> \o prev
        gone == {i \in DOMAIN updated : updated[i].dismissing}
    IN  IF Len(updated) <= MAX_VISIBLE_ALERTS THEN updated
        ELSE IF gone = {} THEN SliceFirst(updated, MAX_VISIBLE_ALERTS)
        ELSE LET g == CHOOSE i \in gone : \A j \in gone : i <= j
             IN  SubSeq(updated, 1, g - 1) \o SubSeq(updated, g + 1, Len(updated))

\* setAlerts updater of pushAlert
PrependAlert(prev, newAlert) ==
    LET updated == <<newAlert>> \o prev
    IN  SliceFirst(updated, MAX_VISIBLE_ALERTS)

\* variant: the flag is never set
MarkDismissingForgets(prev, id) == prev

\* variant: the flag is flipped instead of set
ToggleDismissing(prev, id) ==
    [i \in DOMAIN prev |->
        IF prev[i].id = id THEN [prev[i] EXCEPT !.dismissing = ~@] ELSE prev[i]]

\* variant: the flag of every entry is recomputed from the id test
MarkOnlyThisDismissing(prev, id) ==
    [i \in DOMAIN prev |-> [prev[i] EXCEPT !.dismissing = (prev[i].id = id)]]

\* setAlerts updater of dismissAlert (synchronous part)
MarkDismissing(prev, id) ==
    [i \in DOMAIN prev |->
        IF prev[i].id = id THEN [prev[i] EXCEPT !.dismissing = TRUE] ELSE prev[i]]

\* variant: the removal updater that filters nothing out
RemoveByIdKeepsAll(prev, id) == SelectSeq(prev, LAMBDA a : TRUE)

\* variant: removal by splice(indexOf(id), 1) without a check for -1
RemoveBySplice(prev, id) ==
    IF id \in {prev[i].id : i \in DOMAIN prev}
    THEN SelectSeq(prev, LAMBDA a : a.id # id)
    ELSE SubSeq(prev, 1, Len(prev) - 1)

\* variant: the removal also takes every older entry out
RemoveByIdAndOlder(prev, id) == SelectSeq(prev, LAMBDA a : a.id > id)

\* setAlerts updater of dismissAlert's 400 ms timeout
RemoveById(prev, id) == SelectSeq(prev, LAMBDA a : a.id # id)

\* a pending setTimeout: left counts down to 0; repeat marks (for the observer) a
\* removal scheduled by a dismissAlert call that was not the first for its id;
\* owner is the mount whose closures (setAlerts, dismissAlert) the callback holds
Timer(kind, id, delay, repeat) ==
    [kind |-> kind, id |-> id, delay |-> delay, left |-> delay, repeat |-> repeat,
     owner |-> instance]

RemoveAt(s, i) == [j \in 1..(Len(s) - 1) |-> IF j < i THEN s[j] ELSE s[j + 1]]

AlertIds(al) == {al[i].id : i \in DOMAIN al}

\* observer record of one pushAlert call: the alert as created, the snapshot that
\* triggered it, the time since the raise, and how and how long ago the alert
\* entered the dismissing state (dismissingAge -1: it never did)
RaisedEntry(newAlert, data) ==
    [alert |-> newAlert, snapshot |-> data, age |-> 0, manual |-> FALSE,
     evicted |-> FALSE, dismissCalled |-> FALSE, enteredBy |-> "none",
     dismissingAge |-> -1]

\* ages are tracked up to the end of the lifecycle
AgeCap == ALERT_AUTO_DISMISS_MS + DISMISS_ANIMATION_MS

Op(name, tone, notification) ==
    [op |-> name, tone |-> tone, notification |-> notification]

DismissCalled(id) == \E k \in DOMAIN raised : raised[k].alert.id = id /\ raised[k].dismissCalled

\* --------------------------------------------------------------------- Init
Init ==
    /\ micData = [doa |-> 0, is_voice |-> FALSE, timestamp |-> 0]
    /\ history = <<>>
    /\ whisperCount = 0
    /\ alerts = <<>>
    /\ prevVoiceRef = FALSE
    /\ alertIdCounter = 0
    /\ timers = <<>>
    /\ subscribed = TRUE
    /\ instance = 1
    /\ idsEver = <<>>
    /\ delivered = <<>>
    /\ raised = <<>>
    /\ burst = 0
    /\ clicks = 0
    /\ refAlerts = <<>>
    /\ lastOp = Op("mount", "none", "none")

\* ------------------------------------------------------------------ actions
\* outcomes of audio.play(): played, promise rejected (autoplay), constructor threw
ToneOutcomes == {"played", "rejected", "threw"}
\* outcomes of fireBrowserNotification: permission not granted / unsupported,
\* notification shown, constructor threw
NotificationOutcomes == {"skipped", "shown", "threw"}

\* variant: the counter is read but not advanced
NextAlertIdStuck(counter) == counter

\* variant: the counter wraps around at the size of the list
NextAlertIdWraps(counter) == (counter % MAX_VISIBLE_ALERTS) + 1

\* ++alertIdCounter.current
NextAlertId(counter) == counter + 1

\* pushAlert(doa, timestamp); the notification constructor is not guarded, so
\* when it throws the exception leaves pushAlert and the onValue callback
PushAlert(data, tone, notification) ==
    LET id == NextAlertId(alertIdCounter)
        newAlert == NewAlert(id, data.doa, data.timestamp)
        kept == PrependAlert(alerts, newAlert)
    IN  /\ alertIdCounter' = id
        /\ alerts' = kept
        /\ timers' = timers \o <<Timer("autoDismiss", id, ALERT_AUTO_DISMISS_MS, FALSE)>>
                         \o (IF notification = "shown"
                             THEN <<Timer("closeNotification", id, NOTIFICATION_CLOSE_MS, FALSE)>>
                             ELSE <<>>)
        /\ refAlerts' = PrependAlert(refAlerts, newAlert)
        /\ raised' = [k \in 1..(Len(raised) + 1) |->
                        IF k = Len(raised) + 1 THEN RaisedEntry(newAlert, data)
                        ELSE IF raised[k].alert.id \in AlertIds(alerts) \ AlertIds(kept)
                             THEN [raised[k] EXCEPT !.evicted = TRUE]
                             ELSE raised[k]]
        /\ burst' = burst + 1
        /\ idsEver' = Append(idsEver, id)

\* if (data): a null payload is falsy
HasData(data) == data # NullData

\* variant: the previous-voice flag is cleared on a null payload
SkipPayloadClearsFlag ==
    /\ lastOp' = Op("null", "none", "none")
    /\ prevVoiceRef' = FALSE
    /\ UNCHANGED <<micData, history, whisperCount, alerts,
                   alertIdCounter, timers, delivered, raised, burst, refAlerts, idsEver>>

\* the onValue callback when the guard fails: nothing is executed
SkipPayload ==
    /\ lastOp' = Op("null", "none", "none")
    /\ UNCHANGED <<micData, history, whisperCount, alerts, prevVoiceRef,
                   alertIdCounter, timers, delivered, raised, burst, refAlerts, idsEver>>

\* the onValue callback
OnValue(data, tone, notification) ==
    /\ subscribed
    /\ IF ~HasData(data)
       THEN SkipPayload
       ELSE /\ micData' = data
            /\ history' = AppendHistory(history, data)
            /\ whisperCount' = BumpWhisperCount(whisperCount, data)
            /\ delivered' = Append(delivered, data)
            /\ IF IsRisingEdge(data, prevVoiceRef)
               THEN /\ PushAlert(data, tone, notification)
                    /\ prevVoiceRef' = IF notification = "threw" THEN prevVoiceRef
                                       ELSE data.is_voice
                    /\ lastOp' = Op("raise", tone, notification)
               ELSE /\ prevVoiceRef' = data.is_voice
                    /\ lastOp' = Op("snapshot", "none", "none")
                    /\ UNCHANGED <<alerts, alertIdCounter, timers, raised, burst, refAlerts,
                                   idsEver>>
    /\ UNCHANGED <<subscribed, instance, clicks>>

\* variant: a user dismissal is removed only when the auto-dismiss delay is over
DismissAlertWaitsForAuto(id, tm, byUser) ==
    LET repeat == DismissCalled(id)
        enters == \E i \in DOMAIN alerts : alerts[i].id = id /\ ~alerts[i].dismissing
        delay == IF byUser THEN ALERT_AUTO_DISMISS_MS ELSE DISMISS_ANIMATION_MS
    IN  /\ alerts' = MarkDismissing(alerts, id)
        /\ timers' = Append(tm, Timer("remove", id, delay, repeat))
        /\ refAlerts' = IF repeat THEN refAlerts ELSE MarkDismissing(refAlerts, id)
        /\ raised' = [k \in DOMAIN raised |->
                        IF raised[k].alert.id = id
                        THEN [raised[k] EXCEPT
                                !.dismissCalled = TRUE,
                                !.manual = @ \/ byUser,
                                !.enteredBy = IF ~enters THEN @
                                              ELSE IF byUser THEN "user" ELSE "timer",
                                !.dismissingAge = IF enters THEN 0 ELSE @]
                        ELSE raised[k]]

\* dismissAlert(id), called from the timer list tm (the caller already took
\* its own timer out)
DismissAlert(id, tm, byUser) ==
    LET repeat == DismissCalled(id)
        enters == \E i \in DOMAIN alerts : alerts[i].id = id /\ ~alerts[i].dismissing
    IN  /\ alerts' = MarkDismissing(alerts, id)
        /\ timers' = Append(tm, Timer("remove", id, DISMISS_ANIMATION_MS, repeat))
        /\ refAlerts' = IF repeat THEN refAlerts ELSE MarkDismissing(refAlerts, id)
        /\ raised' = [k \in DOMAIN raised |->
                        IF raised[k].alert.id = id
                        THEN [raised[k] EXCEPT
                                !.dismissCalled = TRUE,
                                !.manual = @ \/ byUser,
                                !.enteredBy = IF ~enters THEN @
                                              ELSE IF byUser THEN "user" ELSE "timer",
                                !.dismissingAge = IF enters THEN 0 ELSE @]
                        ELSE raised[k]]

\* the X button of a rendered toast: onDismiss(alert.id)
ClickDismiss(id) ==
    /\ subscribed
    /\ id \in AlertIds(alerts)
    /\ clicks < MaxDismissClicks
    /\ DismissAlert(id, timers, TRUE)
    /\ clicks' = clicks + 1
    /\ burst' = 0
    /\ lastOp' = Op("dismiss", "none", "none")
    /\ UNCHANGED <<micData, history, whisperCount, prevVoiceRef, alertIdCounter,
                   subscribed, instance, idsEver, delivered>>

\* a timer may run once its deadline is reached and every timer created before
\* it with a delay no longer than its own has run
CanFire(i) ==
    /\ timers[i].left = 0
    /\ \A j \in 1..(i - 1) : timers[j].delay > timers[i].delay

\* a setTimeout callback runs; the callback of a timer created by an earlier
\* mount works on that mount's state, which is no longer rendered, so only the
\* timer list changes
FireTimer(i) ==
    /\ i \in DOMAIN timers
    /\ CanFire(i)
    /\ LET t == timers[i]
           rest == RemoveAt(timers, i)
       IN  IF t.owner # instance
           THEN /\ timers' = IF t.kind = "autoDismiss"
                             THEN Append(rest, [Timer("remove", t.id, DISMISS_ANIMATION_MS, TRUE)
                                                   EXCEPT !.owner = t.owner])
                             ELSE rest
                /\ UNCHANGED <<alerts, refAlerts, raised, burst>>
           ELSE /\ burst' = 0
                /\ CASE t.kind = "autoDismiss" ->
                           DismissAlert(t.id, rest, FALSE)
                     [] t.kind = "remove" ->
                           /\ alerts' = RemoveById(alerts, t.id)
                           /\ refAlerts' = IF t.repeat THEN refAlerts
                                           ELSE RemoveById(refAlerts, t.id)
                           /\ timers' = rest
                           /\ UNCHANGED raised
                     [] OTHER ->
                           /\ timers' = rest
                           /\ UNCHANGED <<alerts, refAlerts, raised>>
    /\ lastOp' = Op("timer", "none", "none")
    /\ UNCHANGED <<micData, history, whisperCount, prevVoiceRef, alertIdCounter,
                   subscribed, instance, idsEver, delivered, clicks>>

\* time passes by d ms; no pending deadline is skipped
Tick(d) ==
    /\ d > 0
    /\ \A i \in DOMAIN timers : timers[i].left >= d
    /\ timers' = [i \in DOMAIN timers |-> [timers[i] EXCEPT !.left = @ - d]]
    /\ raised' = [k \in DOMAIN raised |->
                    [raised[k] EXCEPT
                        !.age = Min(@ + d, AgeCap),
                        !.dismissingAge = IF @ < 0 THEN @
                                          ELSE Min(@ + d, DISMISS_ANIMATION_MS)]]
    /\ lastOp' = Op("tick", "none", "none")
    /\ UNCHANGED <<micData, history, whisperCount, alerts, prevVoiceRef, alertIdCounter,
                   subscribed, instance, idsEver, delivered, burst, clicks, refAlerts>>

\* the "Reset" label of the Metrics widget: a span without an onClick handler
ResetClick ==
    /\ subscribed
    /\ lastOp' = Op("reset", "none", "none")
    /\ UNCHANGED <<micData, history, whisperCount, alerts, prevVoiceRef, alertIdCounter,
                   timers, subscribed, instance, idsEver, delivered, raised, burst, clicks,
                   refAlerts>>

\* the effect cleanup: () => unsubscribe(); no clearTimeout anywhere
Unsubscribe ==
    /\ subscribed
    /\ subscribed' = FALSE
    /\ lastOp' = Op("unsubscribe", "none", "none")
    /\ UNCHANGED <<micData, history, whisperCount, alerts, prevVoiceRef, alertIdCounter,
                   timers, instance, idsEver, delivered, raised, burst, clicks, refAlerts>>

\* variant: the previous-voice flag lives outside the component and survives
RemountKeepsPrevVoice ==
    /\ ~subscribed
    /\ instance < MaxMounts
    /\ instance' = instance + 1
    /\ micData' = [doa |-> 0, is_voice |-> FALSE, timestamp |-> 0]
    /\ history' = <<>>
    /\ whisperCount' = 0
    /\ alerts' = <<>>
    /\ alertIdCounter' = 0
    /\ subscribed' = TRUE
    /\ delivered' = <<>>
    /\ raised' = <<>>
    /\ burst' = 0
    /\ refAlerts' = <<>>
    /\ lastOp' = Op("mount", "none", "none")
    /\ UNCHANGED <<prevVoiceRef, timers, idsEver, clicks>>

\* the page is navigated back to: a new Dashboard instance is mounted, every
\* useState / useRef starts from its initial value and the effect subscribes;
\* timers of the earlier instance are still pending
Remount ==
    /\ ~subscribed
    /\ instance < MaxMounts
    /\ instance' = instance + 1
    /\ micData' = [doa |-> 0, is_voice |-> FALSE, timestamp |-> 0]
    /\ history' = <<>>
    /\ whisperCount' = 0
    /\ alerts' = <<>>
    /\ prevVoiceRef' = FALSE
    /\ alertIdCounter' = 0
    /\ subscribed' = TRUE
    /\ delivered' = <<>>
    /\ raised' = <<>>
    /\ burst' = 0
    /\ refAlerts' = <<>>
    /\ lastOp' = Op("mount", "none", "none")
    /\ UNCHANGED <<timers, idsEver, clicks>>

\* ----------------------------------------------------------- specifications
Animating == \E i \in DOMAIN timers : timers[i].kind = "remove"

TickSteps ==
    {timers[i].left : i \in DOMAIN timers}
    \cup {ALERT_AUTO_DISMISS_MS \div 2}
    \cup (IF Animating THEN {DISMISS_ANIMATION_MS \div 2} ELSE {})

Deliver ==
    /\ Len(delivered) < MaxSnapshots
    /\ \E voice \in BOOLEAN, tone \in ToneOutcomes, notification \in NotificationOutcomes :
          OnValue(Sample(Len(delivered) + 1, voice), tone, notification)

DeliverNull == OnValue(NullData, "none", "none")

Dismiss == \E id \in 1..alertIdCounter : ClickDismiss(id)

Fire == \E i \in DOMAIN timers : FireTimer(i)

Advance == \E d \in TickSteps : Tick(d)

Next ==
    \/ Deliver
    \/ DeliverNull
    \/ Dismiss
    \/ Fire
    \/ Advance
    \/ ResetClick
    \/ Unsubscribe

Spec == Init /\ [][Next]_vars

\* a long sample stream: the voice flag and the side-effect outcomes are free on
\* the first FreePrefix samples, then the room is silent
DeliverStream ==
    /\ Len(delivered) < MaxStream
    /\ \E voice \in (IF Len(delivered) < FreePrefix THEN BOOLEAN ELSE {FALSE}),
          tone \in ToneOutcomes, notification \in NotificationOutcomes :
          OnValue(Sample(Len(delivered) + 1, voice), tone, notification)

NextHistory ==
    \/ DeliverStream
    \/ DeliverNull
    \/ ResetClick

SpecHistory == Init /\ [][NextHistory]_vars

\* a square-wave stream (voice on every odd sample) with the timers running
DeliverBurst ==
    /\ Len(delivered) < MaxBurstSnapshots
    /\ OnValue(Sample(Len(delivered) + 1, Len(delivered) % 2 = 0), "played", "skipped")

\* time jumps to the next pending deadline
AdvanceToDeadline ==
    \E i \in DOMAIN timers :
        /\ \A j \in DOMAIN timers : timers[i].left <= timers[j].left
        /\ Tick(timers[i].left)

\* in the burst scenario the user dismisses at most one toast
DismissOnce == clicks = 0 /\ Dismiss

NextBurst ==
    \/ DeliverBurst
    \/ DismissOnce
    \/ Fire
    \/ AdvanceToDeadline

SpecBurst == Init /\ [][NextBurst]_vars

\* leaving the page and coming back, with the timers running
DeliverQuiet ==
    \E voice \in BOOLEAN :
        /\ Len(delivered) < MaxQuietSnapshots
        /\ OnValue(Sample(Len(delivered) + 1, voice), "played", "skipped")

\* as DeliverQuiet, or with the Notification constructor throwing
DeliverOrThrow ==
    \E voice \in BOOLEAN, notification \in {"skipped", "threw"} :
        /\ Len(delivered) < MaxSnapshots
        /\ OnValue(Sample(Len(delivered) + 1, voice), "played", notification)

NextRemount ==
    \/ DeliverOrThrow
    \/ Fire
    \/ AdvanceToDeadline
    \/ Unsubscribe
    \/ Remount

SpecRemount == Init /\ [][NextRemount]_vars

\* timers fire when due and time keeps passing; the side effects of a raise succeed
NextLive ==
    \/ DeliverQuiet
    \/ Dismiss
    \/ Fire
    \/ Advance
    \/ Unsubscribe

SpecLive == Init /\ [][NextLive]_vars /\ WF_vars(Fire) /\ WF_vars(Advance)

\* --------------------------------------------------------------- properties
IsPresent(id) == id \in AlertIds(alerts)

AlertOf(id) == alerts[CHOOSE i \in DOMAIN alerts : alerts[i].id = id]

\* number of false->true transitions of is_voice in a snapshot sequence,
\* the value before the first sample being false
RisingEdges(seq) ==
    Cardinality({i \in DOMAIN seq :
        seq[i].is_voice /\ (i = 1 \/ ~seq[i - 1].is_voice)})

VoiceSamples(seq) == Cardinality({i \in DOMAIN seq : seq[i].is_voice})

\* no per-alert timer has reached its deadline without having run
Settled ==
    \A i \in DOMAIN timers :
        timers[i].kind \in {"autoDismiss", "remove"} => timers[i].left > 0

SideEffectFailed ==
    /\ lastOp.op = "raise"
    /\ (lastOp.tone \in {"rejected", "threw"} \/ lastOp.notification = "threw")

\* C1: the number of alerts raised (ids allocated, pushAlert calls) equals the
\* number of false->true transitions of is_voice in the delivered snapshots.
C1_EdgeTriggered ==
    /\ alertIdCounter = RisingEdges(delivered)
    /\ Len(raised) = RisingEdges(delivered)

\* C2: after n valid snapshots the history holds exactly the last min(n, 30)
\* snapshots, oldest first.
C2_HistoryIsLastThirty ==
    LET n == Len(delivered)
        m == Min(n, HISTORY_CAPACITY)
    IN  /\ Len(history) = m
        /\ \A i \in 1..m :
              /\ history[i].doa = delivered[n - m + i].doa
              /\ history[i].is_voice = delivered[n - m + i].is_voice
              /\ history[i].timestamp = delivered[n - m + i].timestamp

C2_Witness ==
    /\ Len(delivered) = MaxStream
    /\ Len(delivered) > HISTORY_CAPACITY
    /\ Len(history) = HISTORY_CAPACITY
    /\ history[1].timestamp = delivered[Len(delivered) - HISTORY_CAPACITY + 1].timestamp

\* C3: the alert list never has more than 5 entries and is ordered newest
\* raised first; after more than 5 raises with no timer callback and no dismiss
\* in between it is exactly the 5 most recently raised alerts, newest first.
C3_AlertCap ==
    /\ Len(alerts) <= MAX_VISIBLE_ALERTS
    /\ \A i, j \in DOMAIN alerts :
          i < j => \E a, b \in DOMAIN raised :
                      /\ b < a
                      /\ raised[a].alert.id = alerts[i].id
                      /\ raised[b].alert.id = alerts[j].id
    /\ burst > MAX_VISIBLE_ALERTS =>
          /\ Len(alerts) = MAX_VISIBLE_ALERTS
          /\ \A i \in 1..MAX_VISIBLE_ALERTS :
                alerts[i] = raised[Len(raised) + 1 - i].alert

C3_Witness ==
    /\ burst > MAX_VISIBLE_ALERTS
    /\ Len(alerts) = MAX_VISIBLE_ALERTS
    /\ \E k \in DOMAIN raised : raised[k].evicted

\* C4: the cumulative counter equals the number of delivered snapshots with
\* is_voice = true, whatever the previous snapshot was.
C4_CounterIsLevelTriggered == whisperCount = VoiceSamples(delivered)

C4_Witness ==
    /\ Len(delivered) = 4
    /\ delivered[1].is_voice /\ delivered[2].is_voice
    /\ ~delivered[3].is_voice /\ delivered[4].is_voice
    /\ whisperCount = 3

\* C5: an alert that was neither dismissed by the user nor evicted by the cap is
\* listed with dismissing = false while younger than 5000 ms, listed with
\* dismissing = true from 5000 ms to below 5400 ms, and not listed from 5400 ms on.
C5_LifecycleTiming ==
    Settled =>
        \A k \in DOMAIN raised :
            LET r == raised[k]
                id == r.alert.id
            IN  (~r.manual /\ ~r.evicted) =>
                    IF r.age < ALERT_AUTO_DISMISS_MS
                    THEN IsPresent(id) /\ ~AlertOf(id).dismissing
                    ELSE IF r.age < ALERT_AUTO_DISMISS_MS + DISMISS_ANIMATION_MS
                    THEN IsPresent(id) /\ AlertOf(id).dismissing
                    ELSE ~IsPresent(id)

C5_Witness ==
    /\ Settled
    /\ \E k \in DOMAIN raised :
          /\ ~raised[k].manual /\ ~raised[k].evicted
          /\ raised[k].age > ALERT_AUTO_DISMISS_MS
          /\ raised[k].age < ALERT_AUTO_DISMISS_MS + DISMISS_ANIMATION_MS
          /\ IsPresent(raised[k].alert.id)
    /\ \E k \in DOMAIN raised :
          /\ ~raised[k].manual /\ ~raised[k].evicted
          /\ raised[k].age >= ALERT_AUTO_DISMISS_MS + DISMISS_ANIMATION_MS

\* C6: once the subscription is torn down no per-alert timer is pending and no
\* timer callback runs any more.
C6_TeardownCancelsTimers ==
    ~subscribed =>
        /\ \A i \in DOMAIN timers : timers[i].kind \notin {"autoDismiss", "remove"}
        /\ lastOp.op # "timer"

\* C7: calling dismissAlert again for an id gives, at every later time, the
\* alert list that results when only the first call for that id is made.
C7_DismissIdempotent == alerts = refAlerts

C7_Witness ==
    /\ lastOp.op = "dismiss"
    /\ \E i, j \in DOMAIN timers :
          /\ i < j
          /\ timers[i].kind = "remove" /\ ~timers[i].repeat
          /\ timers[j].kind = "remove" /\ timers[j].repeat
          /\ timers[j].id = timers[i].id
          /\ timers[j].left > timers[i].left
          /\ IsPresent(timers[i].id)
    /\ Len(alerts) >= 2

\* C8: a null payload changes nothing: display value, history, counter, alert
\* list, id counter, previous-voice flag and timers stay as they were.
C8_NullIgnored ==
    [][lastOp'.op = "null" =>
          UNCHANGED <<micData, history, whisperCount, alerts, alertIdCounter,
                      prevVoiceRef, timers>>]_vars

C8_Witness ==
    /\ lastOp.op = "null"
    /\ prevVoiceRef
    /\ alerts # <<>>

\* C9: after a raise whose tone or notification failed, the state is what a
\* successful raise leaves: the snapshot is recorded, counted, its alert heads
\* the list and the previous-voice flag is the snapshot's is_voice.
C9_SideEffectFailureHarmless ==
    SideEffectFailed =>
        LET data == delivered[Len(delivered)]
        IN  /\ micData = data
            /\ history[Len(history)].timestamp = data.timestamp
            /\ whisperCount = VoiceSamples(delivered)
            /\ alerts[1].id = alertIdCounter
            /\ prevVoiceRef = data.is_voice

\* C10: right after the Reset control is used the cumulative counter is 0.
C10_ResetZeroesCounter == lastOp.op = "reset" => whisperCount = 0

\* C11: under fair firing of timers every alert that is raised is eventually
\* absent from the list, and an alert that entered the dismissing state stays
\* listed as dismissing for 400 ms (unless the cap evicts it) and is absent
\* once the 400 ms have passed.
C11_QueueNeverStuck ==
    /\ [](Settled =>
            \A k \in DOMAIN raised :
                LET e == raised[k]
                IN  /\ (e.dismissingAge >= 0 /\ e.dismissingAge < DISMISS_ANIMATION_MS
                        /\ ~e.evicted)
                            => (IsPresent(e.alert.id) /\ AlertOf(e.alert.id).dismissing)
                    /\ e.dismissingAge >= DISMISS_ANIMATION_MS => ~IsPresent(e.alert.id))
    /\ \A id \in 1..MaxQuietSnapshots : IsPresent(id) ~> ~IsPresent(id)

C11_Witness ==
    \E k \in DOMAIN raised :
        /\ raised[k].dismissingAge >= DISMISS_ANIMATION_MS
        /\ ~raised[k].evicted
        /\ ~IsPresent(raised[k].alert.id)

\* C12 (as stated): every id handed out since the page was loaded is greater
\* than every id handed out before it, so no two alerts ever raised share an id.
C12_UniqueForProcessLifetime ==
    \A i, j \in DOMAIN idsEver : i < j => idsEver[i] < idsEver[j]

\* C12 (amended): within one mount of the component every raised alert gets an
\* id greater than every id handed out before it in that mount, whether or not
\* the earlier alerts are still listed; the ids are 1, 2, 3, ... in raise order
\* and the counter is the id handed out last.
C12_UniquePerMount ==
    /\ \A k \in DOMAIN raised : raised[k].alert.id = k
    /\ alertIdCounter = Len(raised)
    /\ \A id \in AlertIds(alerts) : id \in 1..alertIdCounter

\* the second mount hands out an id that the first mount handed out as well,
\* after raising two alerts of its own
C12_Witness ==
    /\ instance = 2
    /\ Len(raised) = 2
    /\ Len(idsEver) > 2
    /\ ~IsPresent(1)
    /\ \E i \in DOMAIN idsEver : i < Len(idsEver) - 1 /\ idsEver[i] = 1

\* C13: a timer callback (the deferred dismissAlert call or the delayed
\* removal) for an id that is no longer in the list, because it was removed or
\* evicted by the cap, runs to completion and leaves the alert list as it was.
C13_StaleIdIsNoOp ==
    [][\A i \in DOMAIN timers :
          (/\ timers[i].kind \in {"autoDismiss", "remove"}
           /\ ~IsPresent(timers[i].id)
           /\ FireTimer(i))
              => alerts' = alerts]_vars

\* the deferred dismissAlert call of an evicted alert has run while the list is full
C13_Witness ==
    /\ lastOp.op = "timer"
    /\ Len(alerts) = MAX_VISIBLE_ALERTS
    /\ \E k \in DOMAIN raised :
          /\ raised[k].evicted
          /\ raised[k].dismissCalled
          /\ raised[k].enteredBy = "none"

\* C14: immediately after a subscription starts, the first one or one that
\* follows a teardown, the history buffer and the alert list are empty, the
\* cumulative counter is 0 and the previous-voice flag is false, whatever was
\* observed under the earlier subscription; from then on every listed alert was
\* raised, and every history point and counted sample was delivered, under the
\* current subscription.
C14_FreshSubscriptionStartsEmpty ==
    /\ lastOp.op = "mount" =>
            /\ subscribed
            /\ history = <<>>
            /\ alerts = <<>>
            /\ whisperCount = 0
            /\ prevVoiceRef = FALSE
            /\ alertIdCounter = 0
    /\ \A i \in DOMAIN alerts :
            \E k \in DOMAIN raised :
                raised[k].alert = [alerts[i] EXCEPT !.dismissing = FALSE]
    /\ Len(history) <= Len(delivered)
    /\ whisperCount <= Len(delivered)

\* a second subscription has just started after the first one raised an alert
\* whose timer is still pending
C14_Witness ==
    /\ lastOp.op = "mount"
    /\ instance = 2
    /\ idsEver # <<>>
    /\ \E i \in DOMAIN timers : timers[i].kind = "autoDismiss"

\* C15: a click on the dismiss button of a listed, active alert marks it
\* dismissing in that same step; it stays listed as dismissing for 400 ms and is
\* absent afterwards, whatever its age at the click; when its 5000 ms callback
\* runs later the alert list does not change.
C15_UserDismiss ==
    /\ [][\A id \in AlertIds(alerts) :
            (~AlertOf(id).dismissing /\ ClickDismiss(id))
                => /\ alerts' = MarkDismissing(alerts, id)
                   /\ \E j \in DOMAIN alerts' : alerts'[j].id = id /\ alerts'[j].dismissing]_vars
    /\ [](Settled =>
            \A k \in DOMAIN raised :
                LET e == raised[k]
                IN  (e.enteredBy = "user" /\ ~e.evicted) =>
                        IF e.dismissingAge < DISMISS_ANIMATION_MS
                        THEN IsPresent(e.alert.id) /\ AlertOf(e.alert.id).dismissing
                        ELSE ~IsPresent(e.alert.id))
    /\ [][\A i \in DOMAIN timers :
            (/\ timers[i].kind = "autoDismiss"
             /\ \E k \in DOMAIN raised :
                    raised[k].alert.id = timers[i].id /\ raised[k].enteredBy = "user"
             /\ FireTimer(i))
                => alerts' = alerts]_vars

\* an alert dismissed by the user at an age of at most 4600 ms was gone before
\* its 5000 ms callback, which has just run
C15_Witness ==
    /\ lastOp.op = "timer"
    /\ \E k \in DOMAIN raised :
          /\ raised[k].enteredBy = "user"
          /\ raised[k].age = ALERT_AUTO_DISMISS_MS
          /\ raised[k].dismissingAge = DISMISS_ANIMATION_MS
          /\ ~IsPresent(raised[k].alert.id)
          /\ \A i \in DOMAIN timers :
                ~(timers[i].kind = "autoDismiss" /\ timers[i].id = raised[k].alert.id)

\* C16: in every step an alert that is listed as dismissing is, if still listed
\* afterwards, still dismissing, and the id of a raised alert that is absent
\* from the list is absent after the step as well.
C16_NoBackTransitions ==
    [][/\ \A i \in DOMAIN alerts :
            alerts[i].dismissing =>
                \A j \in DOMAIN alerts' : alerts'[j].id = alerts[i].id => alerts'[j].dismissing
       /\ \A k \in DOMAIN raised :
            ~IsPresent(raised[k].alert.id) => raised[k].alert.id \notin AlertIds(alerts')]_vars

\* one alert went through dismissing and is gone while a later one is
\* listed as dismissing
C16_Witness ==
    \E k1, k2 \in DOMAIN raised :
        /\ k1 # k2
        /\ raised[k1].enteredBy # "none"
        /\ ~IsPresent(raised[k1].alert.id)
        /\ IsPresent(raised[k2].alert.id)
        /\ AlertOf(raised[k2].alert.id).dismissing

\* C17: a raise puts the new alert at the head and keeps the earlier entries
\* in their order; when the list already holds 5 entries exactly the tail entry
\* is dropped in that step, whether it is active or dismissing and whatever
\* timers are pending for it, and otherwise no entry is dropped.
C17_EvictionDropsOnlyTail ==
    [][lastOp'.op = "raise" =>
          /\ alerts' # <<>>
          /\ alerts'[1].id = alertIdCounter'
          /\ Tail(alerts') = IF Len(alerts) = MAX_VISIBLE_ALERTS
                             THEN SubSeq(alerts, 1, MAX_VISIBLE_ALERTS - 1)
                             ELSE alerts]_vars

\* the raise that has just run evicted an alert the user had dismissed in the
\* step before, with its 400 ms and 5000 ms timers still pending
C17_Witness ==
    /\ lastOp.op = "raise"
    /\ Len(alerts) = MAX_VISIBLE_ALERTS
    /\ \E k \in DOMAIN raised :
          /\ raised[k].evicted
          /\ raised[k].enteredBy = "user"
          /\ raised[k].dismissingAge < DISMISS_ANIMATION_MS
          /\ \E i \in DOMAIN timers :
                timers[i].kind = "remove" /\ timers[i].id = raised[k].alert.id
          /\ \E i \in DOMAIN timers :
                timers[i].kind = "autoDismiss" /\ timers[i].id = raised[k].alert.id

\* C18: at most one 400 ms removal timer is pending for an alert id at any
\* time, and when the deferred 5000 ms dismissAlert call of an alert runs, that
\* alert is listed and not dismissing (it was neither dismissed nor removed
\* earlier).
C18_NoDuplicateOrDanglingTimers ==
    /\ [](\A i, j \in DOMAIN timers :
            (timers[i].kind = "remove" /\ timers[j].kind = "remove"
             /\ timers[i].id = timers[j].id) => i = j)
    /\ [][\A i \in DOMAIN timers :
            (timers[i].kind = "autoDismiss" /\ FireTimer(i))
                => (IsPresent(timers[i].id) /\ ~AlertOf(timers[i].id).dismissing)]_vars

\* C19: every listed alert has the doa and timestamp of the snapshot that
\* raised it, a snapshot with is_voice true that arrived while the stored
\* previous-voice flag was false; it entered the list with dismissing false;
\* and as long as an id is listed its doa, timestamp and id stay what they were.
C19_AlertCarriesTriggeringSnapshot ==
    /\ [](\A i \in DOMAIN alerts :
            \E k \in DOMAIN raised :
                /\ raised[k].alert.id = alerts[i].id
                /\ raised[k].snapshot.is_voice
                /\ alerts[i].doa = raised[k].snapshot.doa
                /\ alerts[i].timestamp = raised[k].snapshot.timestamp)
    /\ [][/\ lastOp'.op = "raise" =>
                /\ ~prevVoiceRef
                /\ micData'.is_voice
                /\ alerts'[1].id \notin AlertIds(alerts)
                /\ alerts'[1].doa = micData'.doa
                /\ alerts'[1].timestamp = micData'.timestamp
          /\ \A j \in DOMAIN alerts' :
                alerts'[j].id \notin AlertIds(alerts) => ~alerts'[j].dismissing
          /\ \A i \in DOMAIN alerts, j \in DOMAIN alerts' :
                alerts'[j].id = alerts[i].id =>
                    /\ alerts'[j].doa = alerts[i].doa
                    /\ alerts'[j].timestamp = alerts[i].timestamp]_vars

\* two alerts raised by different snapshots are listed, the older one dismissing
C19_Witness ==
    /\ Len(alerts) = 2
    /\ alerts[2].dismissing
    /\ alerts[1].doa # alerts[2].doa
    /\ alerts[1].timestamp # alerts[2].timestamp
    /\ alerts[1].doa = delivered[Len(delivered)].doa

\* C20: in every reachable state the ids of the listed alerts strictly
\* decrease from head to tail, so they are pairwise distinct.
C20_IdsStrictlyDecreasing ==
    \A i, j \in DOMAIN alerts : i < j => alerts[i].id > alerts[j].id

\* after a cap eviction and the removal of an alert from the middle of the list
C20_Witness ==
    /\ Len(alerts) = MAX_VISIBLE_ALERTS - 1
    /\ \E k \in DOMAIN raised : raised[k].evicted
    /\ \E i \in 1..(Len(alerts) - 1) : alerts[i].id > alerts[i + 1].id + 1
    /\ alerts[1].id = alertIdCounter

\* C21: a dismissAlert(id) call, from the button or from the 5000 ms timer,
\* and the delayed removal for id touch only the entry with that id: every
\* other alert keeps its place among the others, its fields and its flag (a
\* dismissAlert call moves nothing at all), and the current snapshot, the
\* history buffer, the cumulative counter, the previous-voice flag and the id
\* counter stay as they were.
C21_DismissFrame ==
    [][/\ \A id \in AlertIds(alerts) :
            ClickDismiss(id) =>
                /\ Len(alerts') = Len(alerts)
                /\ \A j \in DOMAIN alerts : alerts[j].id # id => alerts'[j] = alerts[j]
                /\ UNCHANGED <<micData, history, whisperCount, prevVoiceRef,
                               alertIdCounter>>
       /\ \A i \in DOMAIN timers :
            (timers[i].kind = "autoDismiss" /\ FireTimer(i)) =>
                /\ Len(alerts') = Len(alerts)
                /\ \A j \in DOMAIN alerts :
                        alerts[j].id # timers[i].id => alerts'[j] = alerts[j]
                /\ UNCHANGED <<micData, history, whisperCount, prevVoiceRef,
                               alertIdCounter>>
       /\ \A i \in DOMAIN timers :
            (timers[i].kind = "remove" /\ FireTimer(i)) =>
                /\ alerts' = SelectSeq(alerts, LAMBDA a : a.id # timers[i].id)
                /\ UNCHANGED <<micData, history, whisperCount, prevVoiceRef,
                               alertIdCounter>>]_vars

\* the alert the user dismissed has just been taken out from between a newer
\* and an older alert, which are both still listed
C21_Witness ==
    /\ lastOp.op = "timer"
    /\ \E k \in DOMAIN raised :
          /\ raised[k].enteredBy = "user"
          /\ ~raised[k].evicted
          /\ ~IsPresent(raised[k].alert.id)
          /\ \E a, b \in AlertIds(alerts) : a < raised[k].alert.id /\ raised[k].alert.id < b
          /\ \A i \in DOMAIN timers :
                ~(timers[i].kind = "remove" /\ timers[i].id = raised[k].alert.id)

\* C22: in every reachable state the id counter, the number of alerts raised
\* by this mount, is at most the cumulative counter of snapshots with is_voice
\* true.
C22_RaisesAtMostVoiceSamples ==
    /\ alertIdCounter = Len(raised)
    /\ alertIdCounter <= whisperCount

\* a second mount has raised an alert and counted more true samples than alerts
C22_Witness ==
    /\ instance = 2
    /\ alertIdCounter >= 1
    /\ alertIdCounter < whisperCount
    /\ Len(idsEver) > whisperCount

====
